---------------------------- MODULE Spec2Model ----------------------------
(***************************************************************************)
(* Model of the Xero invoice-master actor (src/.actor/src/main.py).        *)
(*                                                                         *)
(* Python strings are modelled as sequences of one-character strings, so   *)
(* that formatting (f-strings), str.strip, str.replace, str.startswith and *)
(* sorted() are computed character by character as the code computes      *)
(* them.  A CSV row (a dict built by csv.DictReader) is a sequence of      *)
(* <<column name, value>> pairs in header order with distinct names.       *)
(***************************************************************************)
EXTENDS Integers, Sequences, FiniteSets, TLC

VARIABLES
    pc,            \* position of the run (of main(), or of the function harness)
    actor_input,   \* the dict returned by Actor.get_input()
    ledger_rows,   \* rows parsed from the ledger CSV
    master_rows,   \* rows parsed from the master CSV
    fetches,       \* outcomes of the fetch_csv_rows calls so far, per label
    merges,        \* number of build_output_rows calls
    result,        \* what build_output_rows + rows_to_csv produced
    prev_result,   \* the result of the previous run on the same inputs
    dataset,       \* records pushed with Actor.push_data, in order
    kv_store,      \* keys written with Actor.set_value
    idx,           \* ordinal handed to the key builders
    lkey,          \* key returned by build_ledger_key
    mkey           \* key returned by build_master_key

vars == <<pc, actor_input, ledger_rows, master_rows, fetches, merges, result,
          prev_result, dataset, kv_store, idx, lkey, mkey>>

-----------------------------------------------------------------------------
(* Bounds of the model. *)

\* longest ledger row list drawn
MaxLedgerRows == 2

\* longest master row list drawn
MaxMasterRows == 2

\* largest ordinal handed to a key builder on its own
MaxIdx == 2

-----------------------------------------------------------------------------
(* Python values. *)

\* Python's None: a one-element sequence whose element is no single character,
\* hence different from every string.
None == <<"None">>

\* An exception propagating out of a function, in place of its return value.
Raised == <<"raise">>

\* bool(v) for v a string or None
Truthy(v) == v # None /\ v # <<>>

\* a or b
Or(a, b) == IF Truthy(a) THEN a ELSE b

\* str.isspace for one character
IsSpace(c) == c \in {" ", "\t", "\n", "\r"}

RECURSIVE lstrip(_)
lstrip(s) == IF s # <<>> /\ IsSpace(Head(s)) THEN lstrip(Tail(s)) ELSE s

RECURSIVE rstrip(_)
rstrip(s) ==
    IF s # <<>> /\ IsSpace(s[Len(s)]) THEN rstrip(SubSeq(s, 1, Len(s) - 1)) ELSE s

\* str.strip
strip(s) == rstrip(lstrip(s))

\* str.startswith
startswith(s, p) == Len(s) >= Len(p) /\ SubSeq(s, 1, Len(p)) = p

\* str.replace(old, new) for single characters
replace(s, old, new) == [i \in 1..Len(s) |-> IF s[i] = old THEN new ELSE s[i]]

\* characters in code-point order, for the comparisons sorted() makes
CodePoints ==
    << " ", "(", ")", "+", ",", "-", ".",
       "0", "1", "2", "3", "4", "5", "6", "7", "8", "9", ":",
       "A", "B", "C", "D", "E", "F", "G", "H", "I", "J", "K", "L", "M",
       "N", "O", "P", "Q", "R", "S", "T", "U", "V", "W", "X", "Y", "Z", "_",
       "a", "b", "c", "d", "e", "f", "g", "h", "i", "j", "k", "l", "m",
       "n", "o", "p", "q", "r", "s", "t", "u", "v", "w", "x", "y", "z" >>

\* ord(c), as the place of c in CodePoints
ord == [c \in {CodePoints[i] : i \in 1..Len(CodePoints)} |->
          CHOOSE i \in 1..Len(CodePoints) : CodePoints[i] = c]

\* s < t for strings from position i on (lexicographic by code point)
RECURSIVE StrLessFrom(_, _, _)
StrLessFrom(s, t, i) ==
    IF i > Len(t) THEN FALSE
    ELSE IF i > Len(s) THEN TRUE
    ELSE IF s[i] = t[i] THEN StrLessFrom(s, t, i + 1)
    ELSE ord[s[i]] < ord[t[i]]

StrLess(s, t) == StrLessFrom(s, t, 1)

\* the elements of a set as a list, in some order
RECURSIVE SetToSeq(_)
SetToSeq(S) ==
    IF S = {} THEN <<>>
    ELSE LET x == CHOOSE x \in S : TRUE IN <<x>> \o SetToSeq(S \ {x})

\* sorted(S) for a set of strings
sorted(S) == SortSeq(SetToSeq(S), StrLess)

DigitChars == <<"0", "1", "2", "3", "4", "5", "6", "7", "8", "9">>

IsDigit(c) == \E i \in 1..10 : DigitChars[i] = c

DigitVal(c) == (CHOOSE i \in 1..10 : DigitChars[i] = c) - 1

AllDigits(s) == \A i \in 1..Len(s) : IsDigit(s[i])

\* int(s) for a string of digits ("" counts 0)
RECURSIVE DigitsToInt(_)
DigitsToInt(s) ==
    IF s = <<>> THEN 0
    ELSE 10 * DigitsToInt(SubSeq(s, 1, Len(s) - 1)) + DigitVal(s[Len(s)])

\* str(n) for an integer
RECURSIVE str(_)
str(n) ==
    IF n < 0 THEN <<"-">> \o str(-n)
    ELSE IF n < 10 THEN <<DigitChars[n + 1]>>
    ELSE str(n \div 10) \o <<DigitChars[(n % 10) + 1]>>

-----------------------------------------------------------------------------
(* helpers *)

norm(s) == IF s = None THEN <<>> ELSE strip(s)

\* Decimal(s) for s over the characters the model's amounts are written in
\* (digits, sign, ".", ",", space, and the letters N a b c): an optional sign,
\* then digits with at most one "." and at least one digit, or "NaN" with
\* optional payload digits.  s is already stripped.
Unsigned(s) == IF s # <<>> /\ Head(s) \in {"+", "-"} THEN Tail(s) ELSE s

IsNegative(s) == s # <<>> /\ Head(s) = "-"

DotAt(s) == IF \E i \in 1..Len(s) : s[i] = "."
            THEN CHOOSE i \in 1..Len(s) : s[i] = "." /\ \A j \in 1..(i - 1) : s[j] # "."
            ELSE Len(s) + 1

IntPart(s) == SubSeq(s, 1, DotAt(s) - 1)

FracPart(s) == SubSeq(s, DotAt(s) + 1, Len(s))

IsNaNLiteral(s) ==
    LET u == Unsigned(s)
    IN  startswith(u, <<"N","a","N">>) /\ AllDigits(SubSeq(u, 4, Len(u)))

IsNumberLiteral(s) ==
    LET u == Unsigned(s)
    IN  /\ AllDigits(IntPart(u))
        /\ AllDigits(FracPart(u))
        /\ Len(IntPart(u)) + Len(FracPart(u)) >= 1

\* |dec * 100| rounded to an integer, ties to even (the default context's
\* ROUND_HALF_EVEN, which quantize uses)
CentsMagnitude(u) ==
    LET f    == FracPart(u)
        two  == SubSeq(f \o <<"0","0">>, 1, 2)
        rest == SubSeq(f, 3, Len(f))
        base == 100 * DigitsToInt(IntPart(u)) + DigitsToInt(two)
        tail == SubSeq(rest, 2, Len(rest))
        zero == \A i \in 1..Len(tail) : tail[i] = "0"
        up   == IF rest = <<>> THEN FALSE
                ELSE IF DigitVal(rest[1]) > 5 THEN TRUE
                ELSE IF DigitVal(rest[1]) < 5 THEN FALSE
                ELSE IF zero THEN base % 2 = 1
                ELSE TRUE
    IN  IF up THEN base + 1 ELSE base

amount_key(value) ==
    LET s == norm(value)
    IN  IF s = <<>> THEN <<>>
        ELSE IF IsNaNLiteral(s) THEN Raised
        ELSE IF ~IsNumberLiteral(s) THEN <<>>
        ELSE LET mag == CentsMagnitude(Unsigned(s))
             IN  str(IF IsNegative(s) THEN -mag ELSE mag)

\* float(s) after the commas are removed, in thousandths; nan for "NaN"
StripCommas(s) == SelectSeq(s, LAMBDA c : c # ",")

Thousandths(u) ==
    1000 * DigitsToInt(IntPart(u)) + DigitsToInt(SubSeq(FracPart(u) \o <<"0","0","0">>, 1, 3))

safe_float(value) ==
    LET s == norm(value)
        t == StripCommas(s)
    IN  IF s = <<>> THEN [nan |-> FALSE, milli |-> 0]
        ELSE IF Unsigned(t) = <<"N","a","N">> THEN [nan |-> TRUE, milli |-> 0]
        ELSE IF ~IsNumberLiteral(t) THEN [nan |-> FALSE, milli |-> 0]
        ELSE [nan |-> FALSE,
              milli |-> IF IsNegative(t) THEN -Thousandths(Unsigned(t))
                        ELSE Thousandths(Unsigned(t))]

\* sum(...) of floats, starting from 0
RECURSIVE FloatSum(_)
FloatSum(fs) ==
    IF fs = <<>> THEN [nan |-> FALSE, milli |-> 0]
    ELSE LET r == FloatSum(Tail(fs))
         IN  [nan |-> Head(fs).nan \/ r.nan, milli |-> Head(fs).milli + r.milli]

-----------------------------------------------------------------------------
(* dicts: a CSV row, a summary and an output record are each a dict, a list *)
(* of <<key, value>> pairs with distinct keys in insertion order           *)

\* the empty dict
EmptyDict == <<>>

\* d.keys(), as a set
Columns(d) == {d[i][1] : i \in 1..Len(d)}

\* d.get(k)
Get(d, k) ==
    IF k \in Columns(d)
    THEN d[CHOOSE i \in 1..Len(d) : d[i][1] = k][2]
    ELSE None

\* d[k] = v
setitem(d, k, v) ==
    IF k \in Columns(d)
    THEN [i \in 1..Len(d) |-> IF d[i][1] = k THEN <<k, v>> ELSE d[i]]
    ELSE Append(d, <<k, v>>)

\* d.update(e)
RECURSIVE update(_, _)
update(d, e) ==
    IF e = <<>> THEN d ELSE update(setitem(d, Head(e)[1], Head(e)[2]), Tail(e))

-----------------------------------------------------------------------------
(* key derivation *)

\* build_ledger_key with the date+contact test ahead of the amount test
build_ledger_key_dc_first(row, i) ==
    LET date     == norm(Get(row, <<"D","a","t","e">>))
        contact  == norm(Get(row, <<"C","o","n","t","a","c","t">>))
        amt_str  == Or(Get(row, <<"G","r","o","s","s"," ","(","A","U","D",")">>), Get(row, <<"N","e","t"," ","(","A","U","D",")">>))
        amt_norm == amount_key(amt_str)
    IN  IF amt_norm = Raised THEN Raised
        ELSE IF date # <<>> /\ contact # <<>>
        THEN <<"D","C",":",":">> \o date \o <<":",":">> \o contact
        ELSE IF date # <<>> /\ contact # <<>> /\ amt_norm # <<>>
        THEN <<"D","C","A","M","T",":",":">> \o date \o <<":",":">> \o contact \o <<":",":">> \o amt_norm
        ELSE <<"L","E","D","G","E","R","_","R","O","W",":",":">> \o str(i)

build_ledger_key(row, i) ==
    LET date     == norm(Get(row, <<"D","a","t","e">>))
        contact  == norm(Get(row, <<"C","o","n","t","a","c","t">>))
        amt_str  == Or(Get(row, <<"G","r","o","s","s"," ","(","A","U","D",")">>), Get(row, <<"N","e","t"," ","(","A","U","D",")">>))
        amt_norm == amount_key(amt_str)
    IN  IF amt_norm = Raised THEN Raised
        ELSE IF date # <<>> /\ contact # <<>> /\ amt_norm # <<>>
        THEN <<"D","C","A","M","T",":",":">> \o date \o <<":",":">> \o contact \o <<":",":">> \o amt_norm
        ELSE IF date # <<>> /\ contact # <<>>
        THEN <<"D","C",":",":">> \o date \o <<":",":">> \o contact
        ELSE <<"L","E","D","G","E","R","_","R","O","W",":",":">> \o str(i)

\* build_master_key with a last-resort key that leaves the ordinal out
build_master_key_no_ordinal(row, i) ==
    LET date     == norm(Get(row, <<"D","a","t","e">>))
        contact  == norm(Get(row, <<"C","o","n","t","a","c","t">>))
        amt_str  == Or(Or(Get(row, <<"A","m","o","u","n","t"," ","a","u","d">>), Get(row, <<"A","m","o","u","n","t"," ","A","U","D">>)),
                       Get(row, <<"L","i","n","e"," ","a","m","o","u","n","t">>))
        amt_norm == amount_key(amt_str)
    IN  IF amt_norm = Raised THEN Raised
        ELSE IF date # <<>> /\ contact # <<>> /\ amt_norm # <<>>
        THEN <<"D","C","A","M","T",":",":">> \o date \o <<":",":">> \o contact \o <<":",":">> \o amt_norm
        ELSE IF date # <<>> /\ contact # <<>>
        THEN <<"D","C",":",":">> \o date \o <<":",":">> \o contact
        ELSE <<"M","A","S","T","E","R","_","R","O","W",":",":">>

build_master_key(row, i) ==
    LET date     == norm(Get(row, <<"D","a","t","e">>))
        contact  == norm(Get(row, <<"C","o","n","t","a","c","t">>))
        amt_str  == Or(Or(Get(row, <<"A","m","o","u","n","t"," ","a","u","d">>), Get(row, <<"A","m","o","u","n","t"," ","A","U","D">>)),
                       Get(row, <<"L","i","n","e"," ","a","m","o","u","n","t">>))
        amt_norm == amount_key(amt_str)
    IN  IF amt_norm = Raised THEN Raised
        ELSE IF date # <<>> /\ contact # <<>> /\ amt_norm # <<>>
        THEN <<"D","C","A","M","T",":",":">> \o date \o <<":",":">> \o contact \o <<":",":">> \o amt_norm
        ELSE IF date # <<>> /\ contact # <<>>
        THEN <<"D","C",":",":">> \o date \o <<":",":">> \o contact
        ELSE <<"M","A","S","T","E","R","_","R","O","W",":",":">> \o str(i)

-----------------------------------------------------------------------------
(* Inputs of the key builders on their own: every combination of a present, *)
(* blank or absent Date and Contact with the amount columns.                *)

\* a row holding the columns whose value is not None, in header order
MakeRow(pairs) == SelectSeq(pairs, LAMBDA p : p[2] # None)

KeyDates == {None, <<>>, <<" ">>, <<"2","0","1","6","-","0","1","-","0","1">>}

KeyContacts == {None, <<" "," ">>, <<"A","c","m","e">>}

KeyGross == {None, <<>>, <<" ">>, <<"a","b","c">>, <<"1",",","0","0","0",".","0","0">>, <<"1","0","0","0",".","0","0">>, <<"0">>, <<"-","0",".","1","2","5">>, <<"N","a","N">>}

KeyNet == {None, <<"5">>}

KeyLedgerRows ==
    { MakeRow(<< <<<<"D","a","t","e">>, d>>, <<<<"C","o","n","t","a","c","t">>, c>>,
                 <<<<"G","r","o","s","s"," ","(","A","U","D",")">>, g>>, <<<<"N","e","t"," ","(","A","U","D",")">>, n>> >>) :
        d \in KeyDates, c \in KeyContacts, g \in KeyGross, n \in KeyNet }

KeyAmountAud == {None, <<>>, <<"a","b","c">>, <<"1","0">>, <<"N","a","N">>}

KeyMasterRows ==
    { MakeRow(<< <<<<"D","a","t","e">>, d>>, <<<<"C","o","n","t","a","c","t">>, c>>, <<<<"A","m","o","u","n","t"," ","a","u","d">>, a>>,
                 <<<<"A","m","o","u","n","t"," ","A","U","D">>, b>>, <<<<"L","i","n","e"," ","a","m","o","u","n","t">>, l>> >>) :
        d \in {None, <<" ">>, <<"2","0","1","6","-","0","1","-","0","1">>}, c \in {None, <<"A","c","m","e">>},
        a \in KeyAmountAud, b \in {None, <<"2","0",".","0","0","5">>}, l \in {None, <<>>, <<"3","0">>} }

NoResult == [status |-> "none"]

InitKey ==
    /\ pc = "keys"
    /\ \/ ledger_rows \in {<<r>> : r \in KeyLedgerRows} /\ master_rows = <<>>
       \/ master_rows \in {<<r>> : r \in KeyMasterRows} /\ ledger_rows = <<>>
    /\ idx \in 0..MaxIdx
    /\ lkey = None
    /\ mkey = None
    /\ actor_input = <<>>
    /\ fetches = [ledger |-> <<>>, master |-> <<>>]
    /\ merges = 0
    /\ result = NoResult
    /\ prev_result = NoResult
    /\ dataset = <<>>
    /\ kv_store = {}

\* one call of build_ledger_key(row, idx)
KeyLedger ==
    /\ pc = "keys"
    /\ ledger_rows # <<>>
    /\ lkey' = build_ledger_key(ledger_rows[1], idx)
    /\ pc' = "keyed"
    /\ UNCHANGED <<actor_input, ledger_rows, master_rows, fetches, merges, result,
                   prev_result, dataset, kv_store, idx, mkey>>

\* one call of build_master_key(row, idx)
KeyMaster ==
    /\ pc = "keys"
    /\ master_rows # <<>>
    /\ mkey' = build_master_key(master_rows[1], idx)
    /\ pc' = "keyed"
    /\ UNCHANGED <<actor_input, ledger_rows, master_rows, fetches, merges, result,
                   prev_result, dataset, kv_store, idx, lkey>>

NextKey == KeyLedger \/ KeyMaster

SpecKey == InitKey /\ [][NextKey]_vars

-----------------------------------------------------------------------------
(* C9 *)

\* the amount string a ledger row offers: Gross (AUD) unless it is missing or
\* empty, and then Net (AUD)
LedgerAmountOffered(row) ==
    LET g == Get(row, <<"G","r","o","s","s"," ","(","A","U","D",")">>)
    IN  IF g = None \/ Len(g) = 0 THEN Get(row, <<"N","e","t"," ","(","A","U","D",")">>) ELSE g

\* the amount string a master row offers: the first of Amount aud, Amount AUD,
\* Line amount that is present and not empty (else the last one)
MasterAmountOffered(row) ==
    LET a == Get(row, <<"A","m","o","u","n","t"," ","a","u","d">>)
        b == Get(row, <<"A","m","o","u","n","t"," ","A","U","D">>)
    IN  IF a # None /\ Len(a) > 0 THEN a
        ELSE IF b # None /\ Len(b) > 0 THEN b
        ELSE Get(row, <<"L","i","n","e"," ","a","m","o","u","n","t">>)

\* the three tiers, told by what a returned key starts with and ends in
TierOf(key) ==
    IF startswith(key, <<"D","C","A","M","T",":",":">>) THEN 1
    ELSE IF startswith(key, <<"D","C",":",":">>) THEN 2
    ELSE 3

KeyTiers(row, key, amt, fallback, otherIdxKey) ==
    LET hasDate    == norm(Get(row, <<"D","a","t","e">>)) # <<>>
        hasContact == norm(Get(row, <<"C","o","n","t","a","c","t">>)) # <<>>
        hasAmt     == amount_key(amt) # <<>>
    IN  /\ TierOf(key) = 1 <=> (hasDate /\ hasContact /\ hasAmt)
        /\ TierOf(key) = 2 <=> (hasDate /\ hasContact /\ ~hasAmt)
        /\ TierOf(key) = 3 <=> ~(hasDate /\ hasContact)
        /\ TierOf(key) = 3 => key = fallback \o str(idx)
        /\ TierOf(key) \in {1, 2} => key = otherIdxKey

\* C9: a key builder that returns gives the date+contact+amount key exactly when
\* Date, Contact and the amount key of the offered amount are all non-empty
\* after normalisation, else the date+contact key exactly when Date and Contact
\* are, else <SIDE>_ROW::idx; a tier-1 or tier-2 key is the same for every idx.
C9_KeyPriorityChain ==
    /\ (lkey # None /\ lkey # Raised) =>
          KeyTiers(ledger_rows[1], lkey, LedgerAmountOffered(ledger_rows[1]),
                   <<"L","E","D","G","E","R","_","R","O","W",":",":">>, build_ledger_key(ledger_rows[1], idx + 1))
    /\ (mkey # None /\ mkey # Raised) =>
          KeyTiers(master_rows[1], mkey, MasterAmountOffered(master_rows[1]),
                   <<"M","A","S","T","E","R","_","R","O","W",":",":">>, build_master_key(master_rows[1], idx + 1))

\* a ledger row whose Gross is unparsable although Net holds an amount was
\* keyed by date+contact, and the call used a non-zero ordinal
C9_Witness ==
    /\ lkey # None /\ lkey # Raised
    /\ idx > 0
    /\ TierOf(lkey) = 2
    /\ Get(ledger_rows[1], <<"G","r","o","s","s"," ","(","A","U","D",")">>) = <<"a","b","c">>
    /\ Get(ledger_rows[1], <<"N","e","t"," ","(","A","U","D",")">>) = <<"5">>

-----------------------------------------------------------------------------
(* group summaries *)

\* the copy_field(src_key, dst_key) calls of summarise_ledger_group
LedgerCopyFields ==
    <<
       << <<"D","a","t","e">>,
          <<"L","e","d","g","e","r","_","D","a","t","e">> >>,
       << <<"S","o","u","r","c","e">>,
          <<"L","e","d","g","e","r","_","S","o","u","r","c","e">> >>,
       << <<"C","o","n","t","a","c","t">>,
          <<"L","e","d","g","e","r","_","C","o","n","t","a","c","t">> >>,
       << <<"C","o","n","t","a","c","t"," ","G","r","o","u","p">>,
          <<"L","e","d","g","e","r","_","C","o","n","t","a","c","t","_","G","r","o","u","p">> >>,
       << <<"D","e","s","c","r","i","p","t","i","o","n">>,
          <<"L","e","d","g","e","r","_","D","e","s","c","r","i","p","t","i","o","n">> >>,
       << <<"I","n","v","o","i","c","e"," ","N","u","m","b","e","r">>,
          <<"L","e","d","g","e","r","_","I","n","v","o","i","c","e","_","N","u","m","b","e","r">> >>,
       << <<"R","e","f","e","r","e","n","c","e">>,
          <<"L","e","d","g","e","r","_","R","e","f","e","r","e","n","c","e">> >>,
       << <<"C","u","r","r","e","n","c","y">>,
          <<"L","e","d","g","e","r","_","C","u","r","r","e","n","c","y">> >>,
       << <<"A","c","c","o","u","n","t"," ","C","o","d","e">>,
          <<"L","e","d","g","e","r","_","A","c","c","o","u","n","t","_","C","o","d","e">> >>,
       << <<"A","c","c","o","u","n","t">>,
          <<"L","e","d","g","e","r","_","A","c","c","o","u","n","t">> >>,
       << <<"A","c","c","o","u","n","t"," ","T","y","p","e">>,
          <<"L","e","d","g","e","r","_","A","c","c","o","u","n","t","_","T","y","p","e">> >>,
       << <<"H","o","r","s","e">>,
          <<"L","e","d","g","e","r","_","H","o","r","s","e">> >>,
       << <<"R","e","l","a","t","e","d"," ","a","c","c","o","u","n","t">>,
          <<"L","e","d","g","e","r","_","R","e","l","a","t","e","d","_","A","c","c","o","u","n","t">> >> >>

\* the copy_field(src_key, dst_key) calls of summarise_master_group
MasterCopyFields ==
    <<
       << <<"D","a","t","e">>,
          <<"M","a","s","t","e","r","_","D","a","t","e">> >>,
       << <<"T","y","p","e">>,
          <<"M","a","s","t","e","r","_","T","y","p","e">> >>,
       << <<"Y","e","a","r">>,
          <<"M","a","s","t","e","r","_","Y","e","a","r">> >>,
       << <<"X","e","r","o"," ","n","u","m","b","e","r">>,
          <<"M","a","s","t","e","r","_","X","e","r","o","_","N","u","m","b","e","r">> >>,
       << <<"I","n","v","o","i","c","e"," ","I","D">>,
          <<"M","a","s","t","e","r","_","I","n","v","o","i","c","e","_","I","D">> >>,
       << <<"C","o","n","t","a","c","t">>,
          <<"M","a","s","t","e","r","_","C","o","n","t","a","c","t">> >>,
       << <<"D","e","s","c","r","i","p","t","i","o","n">>,
          <<"M","a","s","t","e","r","_","D","e","s","c","r","i","p","t","i","o","n">> >>,
       << <<"R","e","f","e","r","e","n","c","e">>,
          <<"M","a","s","t","e","r","_","R","e","f","e","r","e","n","c","e">> >>,
       << <<"A","c","c","o","u","n","t"," ","c","o","d","e">>,
          <<"M","a","s","t","e","r","_","A","c","c","o","u","n","t","_","C","o","d","e">> >>,
       << <<"T","r","a","c","k","i","n","g"," ","h","o","r","s","e">>,
          <<"M","a","s","t","e","r","_","T","r","a","c","k","i","n","g","_","H","o","r","s","e">> >>,
       << <<"C","u","r","r","e","n","c","y">>,
          <<"M","a","s","t","e","r","_","C","u","r","r","e","n","c","y">> >>,
       << <<"A","t","t","r","i","b","u","t","e","d"," ","t","o">>,
          <<"M","a","s","t","e","r","_","A","t","t","r","i","b","u","t","e","d","_","T","o">> >>,
       << <<"A","t","t","r","i","b","u","t","i","o","n"," ","m","e","t","h","o","d">>,
          <<"M","a","s","t","e","r","_","A","t","t","r","i","b","u","t","i","o","n","_","M","e","t","h","o","d">> >>,
       << <<"H","o","r","s","e">>,
          <<"M","a","s","t","e","r","_","H","o","r","s","e">> >>,
       << <<"P","r","o","g","e","n","y">>,
          <<"M","a","s","t","e","r","_","P","r","o","g","e","n","y">> >>,
       << <<"C","a","t","e","g","o","r","y"," ","b","u","c","k","e","t">>,
          <<"M","a","s","t","e","r","_","C","a","t","e","g","o","r","y","_","B","u","c","k","e","t">> >>,
       << <<"L","i","k","e","l","y"," ","r","e","l","a","t","e","d">>,
          <<"M","a","s","t","e","r","_","L","i","k","e","l","y","_","R","e","l","a","t","e","d">> >>,
       << <<"X","e","r","o"," ","l","i","n","k">>,
          <<"M","a","s","t","e","r","_","X","e","r","o","_","L","i","n","k">> >>,
       << <<"S","o","u","r","c","e">>,
          <<"M","a","s","t","e","r","_","S","o","u","r","c","e">> >>,
       << <<"U","n","t","r","a","c","k","e","d"," ","f","l","a","g">>,
          <<"M","a","s","t","e","r","_","U","n","t","r","a","c","k","e","d","_","F","l","a","g">> >>,
       << <<"U","n","t","r","a","c","k","e","d"," ","r","e","a","s","o","n">>,
          <<"M","a","s","t","e","r","_","U","n","t","r","a","c","k","e","d","_","R","e","a","s","o","n">> >>,
       << <<"R","e","v","i","e","w","e","r"," ","d","e","c","i","s","i","o","n">>,
          <<"M","a","s","t","e","r","_","R","e","v","i","e","w","e","r","_","D","e","c","i","s","i","o","n">> >>,
       << <<"R","e","v","i","e","w","e","r"," ","n","o","t","e","s">>,
          <<"M","a","s","t","e","r","_","R","e","v","i","e","w","e","r","_","N","o","t","e","s">> >>,
       << <<"D","o","c"," ","I","D">>,
          <<"M","a","s","t","e","r","_","D","o","c","_","I","D">> >>,
       << <<"H","a","s"," ","a","t","t","a","c","h","m","e","n","t","s">>,
          <<"M","a","s","t","e","r","_","H","a","s","_","A","t","t","a","c","h","m","e","n","t","s">> >>,
       << <<"S","o","u","r","c","e"," ","D","o","c">>,
          <<"M","a","s","t","e","r","_","S","o","u","r","c","e","_","D","o","c">> >> >>

\* the dict the copy_field calls fill from the group's first row (the
\* destination names are distinct)
CopyFields(fields, first) ==
    [i \in 1..Len(fields) |-> <<fields[i][2], norm(Get(first, fields[i][1]))>>]

\* sum(safe_float(r.get(column)) for r in rows)
SumColumn(rows, column) ==
    FloatSum([i \in 1..Len(rows) |-> safe_float(Get(rows[i], column))])

summarise_ledger_group(rows) ==
    IF rows = <<>> THEN EmptyDict
    ELSE LET out1 == CopyFields(LedgerCopyFields, rows[1])
             out2 == setitem(out1, <<"L","e","d","g","e","r","_","G","r","o","s","s","_","A","U","D","_","S","u","m">>, SumColumn(rows, <<"G","r","o","s","s"," ","(","A","U","D",")">>))
             out3 == setitem(out2, <<"L","e","d","g","e","r","_","N","e","t","_","A","U","D","_","S","u","m">>, SumColumn(rows, <<"N","e","t"," ","(","A","U","D",")">>))
             out4 == setitem(out3, <<"L","e","d","g","e","r","_","G","S","T","_","A","U","D","_","S","u","m">>, SumColumn(rows, <<"G","S","T"," ","(","A","U","D",")">>))
         IN  setitem(out4, <<"L","e","d","g","e","r","_","R","o","w","_","C","o","u","n","t">>, Len(rows))

summarise_master_group(rows) ==
    IF rows = <<>> THEN EmptyDict
    ELSE LET out1 == CopyFields(MasterCopyFields, rows[1])
             out2 == setitem(out1, <<"M","a","s","t","e","r","_","A","m","o","u","n","t","_","A","U","D","_","S","u","m">>, SumColumn(rows, <<"A","m","o","u","n","t"," ","a","u","d">>))
             out3 == setitem(out2, <<"M","a","s","t","e","r","_","G","S","T","_","A","U","D","_","S","u","m">>, SumColumn(rows, <<"G","s","t"," ","a","u","d">>))
             out4 == setitem(out3, <<"M","a","s","t","e","r","_","L","i","n","e","_","A","m","o","u","n","t","_","S","u","m">>, SumColumn(rows, <<"L","i","n","e"," ","a","m","o","u","n","t">>))
         IN  setitem(out4, <<"M","a","s","t","e","r","_","R","o","w","_","C","o","u","n","t">>, Len(rows))

-----------------------------------------------------------------------------
(* join engine *)

\* the keys the grouping loops compute, row by row (ordinals from 0)
LedgerKeys(rows) == [i \in 1..Len(rows) |-> build_ledger_key(rows[i], i - 1)]

MasterKeys(rows) == [i \in 1..Len(rows) |-> build_master_key(rows[i], i - 1)]

\* groups.setdefault(k, []).append(r) over the rows, r["__invoice_key"] = k set:
\* the dict of key -> rows in input order
RECURSIVE GroupOf(_, _, _)
GroupOf(rows, keys, k) ==
    IF rows = <<>> THEN <<>>
    ELSE LET rest == GroupOf(Tail(rows), Tail(keys), k)
         IN  IF Head(keys) = k
             THEN <<setitem(Head(rows), <<"_","_","i","n","v","o","i","c","e","_","k","e","y">>, k)>> \o rest
             ELSE rest

Groups(rows, keys) ==
    [k \in {keys[i] : i \in 1..Len(keys)} |-> GroupOf(rows, keys, k)]

\* the orders in which iterating a set may yield its elements
RECURSIVE Orders(_)
Orders(S) ==
    IF S = {} THEN {<<>>}
    ELSE UNION {{<<x>> \o o : o \in Orders(S \ {x})} : x \in S}

\* the column a master row field is copied to
MasterRowColumn(mk) == <<"M","a","s","t","e","r","R","o","w","_">> \o replace(mk, " ", "_")

\* for mk, mv in mrow.items(): skip "__" names, row_out[col_name] = mv
RECURSIVE CopyMasterRow(_, _)
CopyMasterRow(row_out, mrow) ==
    IF mrow = <<>> THEN row_out
    ELSE LET mk == Head(mrow)[1]
             mv == Head(mrow)[2]
         IN  IF startswith(mk, <<"_","_">>)
             THEN CopyMasterRow(row_out, Tail(mrow))
             ELSE CopyMasterRow(setitem(row_out, MasterRowColumn(mk), mv), Tail(mrow))

\* for sk, sv in master_summary.items(): if sk not in row_out: row_out[sk] = sv
RECURSIVE CopyMasterSummary(_, _)
CopyMasterSummary(row_out, master_summary) ==
    IF master_summary = <<>> THEN row_out
    ELSE LET sk == Head(master_summary)[1]
             sv == Head(master_summary)[2]
         IN  IF sk \notin Columns(row_out)
             THEN CopyMasterSummary(setitem(row_out, sk, sv), Tail(master_summary))
             ELSE CopyMasterSummary(row_out, Tail(master_summary))

\* the three identity columns every record starts with
Identity(year, k, status) ==
    setitem(setitem(setitem(EmptyDict, <<"Y","e","a","r">>, year), <<"I","n","v","o","i","c","e","_","K","e","y">>, k),
            <<"J","o","i","n","_","S","t","a","t","u","s">>, status)

\* the records of one key of keys_both, one per master row of the group
BothRows(year, k, lg, mg) ==
    LET ledger_summary == summarise_ledger_group(lg)
        master_summary == summarise_master_group(mg)
    IN  [j \in 1..Len(mg) |->
            CopyMasterSummary(
                CopyMasterRow(update(Identity(year, k, <<"B","o","t","h">>), ledger_summary), mg[j]),
                master_summary)]

\* the ledger-only loop, were it to emit one record per ledger row
LedgerOnlyRows_per_row(year, k, lg) ==
    [j \in 1..Len(lg) |->
        update(Identity(year, k, <<"L","e","d","g","e","r","_","O","n","l","y">>), summarise_ledger_group(lg))]

\* the record of one key of keys_ledger_only
LedgerOnlyRows(year, k, lg) ==
    <<update(Identity(year, k, <<"L","e","d","g","e","r","_","O","n","l","y">>), summarise_ledger_group(lg))>>

\* the records of one key of keys_master_only, one per master row of the group
MasterOnlyRows(year, k, mg) ==
    LET master_summary == summarise_master_group(mg)
    IN  [j \in 1..Len(mg) |->
            CopyMasterSummary(CopyMasterRow(Identity(year, k, <<"M","a","s","t","e","r","_","O","n","l","y">>), mg[j]),
                              master_summary)]

\* the conditions of the three list comprehensions over all_keys
InBoth(k, ledger_groups, master_groups) ==
    k \in DOMAIN ledger_groups /\ k \in DOMAIN master_groups

\* the ledger-only condition without its test on master_groups
InLedgerOnly_any_ledger(k, ledger_groups, master_groups) ==
    k \in DOMAIN ledger_groups

InLedgerOnly(k, ledger_groups, master_groups) ==
    k \in DOMAIN ledger_groups /\ k \notin DOMAIN master_groups

InMasterOnly(k, ledger_groups, master_groups) ==
    k \in DOMAIN master_groups /\ k \notin DOMAIN ledger_groups

\* the concatenation of f[k] for k in keys, in order (a for loop appending)
RECURSIVE ForEach(_, _)
ForEach(keys, f) ==
    IF keys = <<>> THEN <<>> ELSE f[Head(keys)] \o ForEach(Tail(keys), f)

\* the summary dict of build_output_rows
Summary(all_keys, keys_both, keys_ledger_only, keys_master_only, lrows, mrows, out_rows) ==
    [keys_total |-> Cardinality(all_keys),
     keys_both |-> Len(keys_both),
     keys_ledger_only |-> Len(keys_ledger_only),
     keys_master_only |-> Len(keys_master_only),
     ledger_rows |-> Len(lrows),
     master_rows |-> Len(mrows),
     output_rows |-> Len(out_rows)]

\* the three emitting loops of build_output_rows, over the partitions of all_keys
EmitRows(year, ledger_groups, master_groups, keys_both, keys_ledger_only, keys_master_only) ==
    ForEach(keys_both,
            [k \in DOMAIN ledger_groups \cap DOMAIN master_groups |->
                BothRows(year, k, ledger_groups[k], master_groups[k])])
    \o ForEach(keys_ledger_only,
               [k \in DOMAIN ledger_groups |-> LedgerOnlyRows(year, k, ledger_groups[k])])
    \o ForEach(keys_master_only,
               [k \in DOMAIN master_groups |-> MasterOnlyRows(year, k, master_groups[k])])

\* what build_output_rows returns, with the partitions it went through
Returns(all_keys, keys_both, keys_ledger_only, keys_master_only, lrows, mrows, out_rows) ==
    [out_rows |-> out_rows,
     all_keys |-> all_keys,
     keys_both |-> keys_both,
     keys_ledger_only |-> keys_ledger_only,
     keys_master_only |-> keys_master_only,
     summary |-> Summary(all_keys, keys_both, keys_ledger_only, keys_master_only,
                         lrows, mrows, out_rows)]

\* build_output_rows once the partitions are computed
JoinPartitions(year, lrows, mrows, ledger_groups, master_groups, keys_both, keys_ledger_only, keys_master_only) ==
    Returns(DOMAIN ledger_groups \cup DOMAIN master_groups,
            keys_both, keys_ledger_only, keys_master_only, lrows, mrows,
            EmitRows(year, ledger_groups, master_groups,
                     keys_both, keys_ledger_only, keys_master_only))

\* build_output_rows once the rows are grouped by key
JoinGroups(year, lrows, mrows, order, ledger_groups, master_groups) ==
    JoinPartitions(year, lrows, mrows, ledger_groups, master_groups,
        SelectSeq(order, LAMBDA k : InBoth(k, ledger_groups, master_groups)),
        SelectSeq(order, LAMBDA k : InLedgerOnly(k, ledger_groups, master_groups)),
        SelectSeq(order, LAMBDA k : InMasterOnly(k, ledger_groups, master_groups)))

\* build_output_rows(year, ledger_rows, master_rows); order is the order in
\* which iterating the set all_keys yields the keys in this process
build_output_rows(year, lrows, mrows, order) ==
    JoinGroups(year, lrows, mrows, order,
               Groups(lrows, LedgerKeys(lrows)), Groups(mrows, MasterKeys(mrows)))

\* whether a key builder raises in one of the grouping loops
GroupingRaises(lrows, mrows) ==
    \/ \E i \in 1..Len(lrows) : LedgerKeys(lrows)[i] = Raised
    \/ \E i \in 1..Len(mrows) : MasterKeys(mrows)[i] = Raised

\* the set all_keys of a call that gets past the grouping loops
AllKeys(lrows, mrows) ==
    {LedgerKeys(lrows)[i] : i \in 1..Len(lrows)} \cup {MasterKeys(mrows)[i] : i \in 1..Len(mrows)}

-----------------------------------------------------------------------------
(* tabular serializer *)

\* the table rows_to_csv writes: the header and one list of cells per record,
\* a missing column an empty cell; no rows give the empty text
rows_to_csv(rows) ==
    IF rows = <<>> THEN [header |-> <<>>, data |-> <<>>]
    ELSE LET fieldnames_set == UNION {Columns(rows[i]) : i \in 1..Len(rows)}
             base == << <<"Y","e","a","r">>, <<"I","n","v","o","i","c","e","_","K","e","y">>, <<"J","o","i","n","_","S","t","a","t","u","s">> >>
             ledger_cols == sorted({c \in fieldnames_set : startswith(c, <<"L","e","d","g","e","r","_">>)})
             master_cols == sorted({c \in fieldnames_set :
                                      startswith(c, <<"M","a","s","t","e","r","_">>) \/ startswith(c, <<"M","a","s","t","e","r","R","o","w","_">>)})
             InSeq(c, q) == \E i \in 1..Len(q) : q[i] = c
             other_cols == sorted({c \in fieldnames_set :
                                     ~InSeq(c, base) /\ ~InSeq(c, ledger_cols)
                                       /\ ~InSeq(c, master_cols)})
             fieldnames == base \o ledger_cols \o master_cols \o other_cols
         IN  [header |-> fieldnames,
              data |-> [i \in 1..Len(rows) |->
                          [j \in 1..Len(fieldnames) |->
                              IF fieldnames[j] \in Columns(rows[i])
                              THEN Get(rows[i], fieldnames[j]) ELSE <<>>]]]

-----------------------------------------------------------------------------
(* Inputs of the join: rows that share keys, rows that fall to each tier,  *)
(* an amount Decimal cannot convert, and a master row whose column names   *)
(* differ only in a space and an underscore.                               *)

JoinLedgerRows ==
    { \* DC::2016-01-01::Acme (the comma makes the amount unparsable)
      << <<<<"D","a","t","e">>, <<"2","0","1","6","-","0","1","-","0","1">>>>, <<<<"C","o","n","t","a","c","t">>, <<"A","c","m","e">>>>,
         <<<<"G","r","o","s","s"," ","(","A","U","D",")">>, <<"1",",","0","0","0",".","0","0">>>> >>,
      \* DCAMT::2016-01-01::Acme::100000
      << <<<<"D","a","t","e">>, <<"2","0","1","6","-","0","1","-","0","1">>>>, <<<<"C","o","n","t","a","c","t">>, <<"A","c","m","e">>>>,
         <<<<"G","r","o","s","s"," ","(","A","U","D",")">>, <<"1","0","0","0",".","0","0">>>>, <<<<"G","S","T"," ","(","A","U","D",")">>, <<"9","0",".","9","1">>>> >>,
      \* DCAMT::2016-01-01::Acme::100000 again, through Net (AUD)
      << <<<<"D","a","t","e">>, <<"2","0","1","6","-","0","1","-","0","1"," ">>>>, <<<<"C","o","n","t","a","c","t">>, <<" ","A","c","m","e">>>>,
         <<<<"G","r","o","s","s"," ","(","A","U","D",")">>, <<>>>>, <<<<"N","e","t"," ","(","A","U","D",")">>, <<"1","0","0","0">>>> >>,
      \* LEDGER_ROW::idx (blank Date)
      << <<<<"D","a","t","e">>, <<" "," ">>>>, <<<<"C","o","n","t","a","c","t">>, <<"A","c","m","e">>>>, <<<<"G","r","o","s","s"," ","(","A","U","D",")">>, <<"5",".","0","0","5">>>> >>,
      \* LEDGER_ROW::idx (no Contact column)
      << <<<<"D","a","t","e">>, <<"2","0","1","6","-","0","1","-","0","1">>>>, <<<<"G","r","o","s","s"," ","(","A","U","D",")">>, <<"1","0","0","0",".","0","0">>>> >>,
      \* amount_key raises
      << <<<<"D","a","t","e">>, <<"2","0","1","6","-","0","1","-","0","1">>>>, <<<<"C","o","n","t","a","c","t">>, <<"A","c","m","e">>>>,
         <<<<"G","r","o","s","s"," ","(","A","U","D",")">>, <<"N","a","N">>>> >> }

JoinMasterRows ==
    { \* DCAMT::2016-01-01::Acme::100000
      << <<<<"D","a","t","e">>, <<"2","0","1","6","-","0","1","-","0","1">>>>, <<<<"C","o","n","t","a","c","t">>, <<"A","c","m","e">>>>,
         <<<<"A","m","o","u","n","t"," ","a","u","d">>, <<"1","0","0","0",".","0","0">>>> >>,
      \* DCAMT::2016-01-01::Acme::100000 again, through Line amount; two columns
      \* that are copied to the same MasterRow_ column
      << <<<<"D","a","t","e">>, <<"2","0","1","6","-","0","1","-","0","1">>>>, <<<<"C","o","n","t","a","c","t">>, <<"A","c","m","e">>>>, <<<<"A","m","o","u","n","t"," ","a","u","d">>, <<>>>>,
         <<<<"L","i","n","e"," ","a","m","o","u","n","t">>, <<"1","0","0","0",".","0","0","0">>>>, <<<<"L","i","n","e","_","a","m","o","u","n","t">>, <<"7">>>> >>,
      \* DC::2016-01-01::Acme
      << <<<<"D","a","t","e">>, <<"2","0","1","6","-","0","1","-","0","1">>>>, <<<<"C","o","n","t","a","c","t">>, <<"A","c","m","e">>>>,
         <<<<"A","m","o","u","n","t"," ","a","u","d">>, <<"a","b","c">>>>, <<<<"L","i","n","e"," ","a","m","o","u","n","t">>, <<"9","0","9",".","0","9">>>> >>,
      \* MASTER_ROW::idx (no Date column)
      << <<<<"C","o","n","t","a","c","t">>, <<"A","c","m","e">>>>, <<<<"A","m","o","u","n","t"," ","a","u","d">>, <<"1","2",".","5","0">>>> >>,
      \* MASTER_ROW::idx (blank Contact)
      << <<<<"D","a","t","e">>, <<"2","0","1","6","-","0","1","-","0","1">>>>, <<<<"C","o","n","t","a","c","t">>, <<" ">>>>, <<<<"A","m","o","u","n","t"," ","A","U","D">>, <<"0",".","1","2","5">>>> >>,
      \* amount_key raises
      << <<<<"D","a","t","e">>, <<"2","0","1","6","-","0","1","-","0","1">>>>, <<<<"C","o","n","t","a","c","t">>, <<"A","c","m","e">>>>,
         <<<<"A","m","o","u","n","t"," ","a","u","d">>, <<"N","a","N">>>> >> }

\* the lists of at most n elements of S
SeqsUpTo(S, n) == UNION {[1..m -> S] : m \in 0..n}

JoinYear == <<"2","0","1","6">>

InitJoin ==
    /\ pc = "join"
    /\ actor_input = << <<<<"Y","e","a","r">>, JoinYear>> >>
    /\ ledger_rows \in SeqsUpTo(JoinLedgerRows, MaxLedgerRows)
    /\ master_rows \in SeqsUpTo(JoinMasterRows, MaxMasterRows)
    /\ idx = 0
    /\ lkey = None
    /\ mkey = None
    /\ fetches = [ledger |-> <<>>, master |-> <<>>]
    /\ merges = 0
    /\ result = NoResult
    /\ prev_result = NoResult
    /\ dataset = <<>>
    /\ kv_store = {}

\* a returned join with its serialized table
WithCsv(b) == [status |-> "returned", csv_text |-> rows_to_csv(b.out_rows)] @@ b

\* what one run computes from the rows: build_output_rows, then rows_to_csv
Merged(year, lrows, mrows, order) == WithCsv(build_output_rows(year, lrows, mrows, order))

\* build_output_rows returns, rows_to_csv follows
JoinReturns ==
    /\ pc = "join"
    /\ ~GroupingRaises(ledger_rows, master_rows)
    /\ \E order \in Orders(AllKeys(ledger_rows, master_rows)) :
          result' = Merged(norm(Get(actor_input, <<"Y","e","a","r">>)), ledger_rows, master_rows, order)
    /\ merges' = merges + 1
    /\ pc' = "joined"
    /\ UNCHANGED <<actor_input, ledger_rows, master_rows, fetches, prev_result,
                   dataset, kv_store, idx, lkey, mkey>>

\* a key builder raises out of build_output_rows
JoinRaises ==
    /\ pc = "join"
    /\ GroupingRaises(ledger_rows, master_rows)
    /\ result' = [status |-> "raised"]
    /\ merges' = merges + 1
    /\ pc' = "joined"
    /\ UNCHANGED <<actor_input, ledger_rows, master_rows, fetches, prev_result,
                   dataset, kv_store, idx, lkey, mkey>>

NextJoin == JoinReturns \/ JoinRaises

SpecJoin == InitJoin /\ [][NextJoin]_vars

\* a second run of the pipeline, in a new process, on the same year and rows
Rerun ==
    /\ pc = "joined"
    /\ result.status = "returned"
    /\ \E order \in Orders(AllKeys(ledger_rows, master_rows)) :
          result' = Merged(norm(Get(actor_input, <<"Y","e","a","r">>)), ledger_rows, master_rows, order)
    /\ prev_result' = result
    /\ merges' = merges + 1
    /\ pc' = "rejoined"
    /\ UNCHANGED <<actor_input, ledger_rows, master_rows, fetches,
                   dataset, kv_store, idx, lkey, mkey>>

NextRerun == JoinReturns \/ JoinRaises \/ Rerun

SpecRerun == InitJoin /\ [][NextRerun]_vars

-----------------------------------------------------------------------------
(* Claims about the join (SpecJoin, SpecRerun). *)

Returned == pc \in {"joined", "rejoined"} /\ result.status = "returned"

ToSet(q) == {q[i] : i \in 1..Len(q)}

NoRepeats(q) == Cardinality(ToSet(q)) = Len(q)

\* the records of the output with a given Invoice_Key
RecordsOf(k) ==
    SelectSeq(result.out_rows, LAMBDA r : Get(r, <<"I","n","v","o","i","c","e","_","K","e","y">>) = k)

\* the records of the output with a Join_Status among statuses
RecordsWith(statuses) ==
    SelectSeq(result.out_rows, LAMBDA r : Get(r, <<"J","o","i","n","_","S","t","a","t","u","s">>) \in statuses)

\* the keys the ledger rows and the master rows derive
LedgerKeySet == {build_ledger_key(ledger_rows[i], i - 1) : i \in 1..Len(ledger_rows)}

MasterKeySet == {build_master_key(master_rows[i], i - 1) : i \in 1..Len(master_rows)}

\* C1: when build_output_rows returns, keys_both, keys_ledger_only and
\* keys_master_only are pairwise disjoint lists without repeats, their union is
\* all_keys, the union of the ledger keys and the master keys, and the three
\* counts of the summary add up to keys_total.
C1_PartitionExact ==
    Returned =>
        LET kb == ToSet(result.keys_both)
            kl == ToSet(result.keys_ledger_only)
            km == ToSet(result.keys_master_only)
            sm == result.summary
        IN  /\ kb \cap kl = {} /\ kb \cap km = {} /\ kl \cap km = {}
            /\ NoRepeats(result.keys_both)
            /\ NoRepeats(result.keys_ledger_only)
            /\ NoRepeats(result.keys_master_only)
            /\ result.all_keys = LedgerKeySet \cup MasterKeySet
            /\ kb \cup kl \cup km = result.all_keys
            /\ sm.keys_total = Cardinality(LedgerKeySet \cup MasterKeySet)
            /\ sm.keys_both + sm.keys_ledger_only + sm.keys_master_only = sm.keys_total

\* a returned join in which each of the three lists holds a key
C1_Witness ==
    /\ Returned
    /\ result.summary.keys_both > 0
    /\ result.summary.keys_ledger_only > 0
    /\ result.summary.keys_master_only > 0

\* C2: when build_output_rows returns, every key's master rows have one record
\* each, marked Both or Master_Only, so those records number len(master_rows);
\* every ledger-only key has exactly one record, marked Ledger_Only, however
\* many ledger rows its group holds; and output_rows == master_rows +
\* keys_ledger_only.
C2_RowConservation ==
    Returned =>
        LET sm == result.summary
        IN  /\ Len(RecordsWith({<<"B","o","t","h">>, <<"M","a","s","t","e","r","_","O","n","l","y">>})) = Len(master_rows)
            /\ \A k \in MasterKeySet :
                  Len(SelectSeq(RecordsOf(k),
                                LAMBDA r : Get(r, <<"J","o","i","n","_","S","t","a","t","u","s">>) \in {<<"B","o","t","h">>, <<"M","a","s","t","e","r","_","O","n","l","y">>}))
                    = Cardinality({i \in 1..Len(master_rows) :
                                     build_master_key(master_rows[i], i - 1) = k})
            /\ \A k \in LedgerKeySet \ MasterKeySet :
                  /\ Len(RecordsOf(k)) = 1
                  /\ Get(RecordsOf(k)[1], <<"J","o","i","n","_","S","t","a","t","u","s">>) = <<"L","e","d","g","e","r","_","O","n","l","y">>
            /\ Len(RecordsWith({<<"L","e","d","g","e","r","_","O","n","l","y">>})) = sm.keys_ledger_only
            /\ sm.keys_ledger_only = Cardinality(LedgerKeySet \ MasterKeySet)
            /\ sm.master_rows = Len(master_rows)
            /\ sm.output_rows = Len(result.out_rows)
            /\ sm.output_rows = sm.master_rows + sm.keys_ledger_only

\* a returned join with a ledger-only key whose group holds two ledger rows,
\* beside two master rows
C2_Witness ==
    /\ Returned
    /\ Len(master_rows) = 2
    /\ \E r \in ToSet(result.out_rows) :
          /\ Get(r, <<"J","o","i","n","_","S","t","a","t","u","s">>) = <<"L","e","d","g","e","r","_","O","n","l","y">>
          /\ Get(r, <<"L","e","d","g","e","r","_","R","o","w","_","C","o","u","n","t">>) = 2

Lacks(row, column) == norm(Get(row, column)) = <<>>

\* C5: when build_output_rows returns, a master row at ordinal idx that lacks
\* Date or Contact is keyed MASTER_ROW::idx; no other master row and no ledger
\* row derives that key; the output holds exactly one record with it, marked
\* Master_Only, of a group of one row.  A ledger row keyed LEDGER_ROW::idx is
\* likewise alone, with exactly one record, marked Ledger_Only.
C5_OrdinalKeysAlone ==
    Returned =>
        /\ \A j \in 1..Len(master_rows) :
              (Lacks(master_rows[j], <<"D","a","t","e">>) \/ Lacks(master_rows[j], <<"C","o","n","t","a","c","t">>)) =>
                 LET k == <<"M","A","S","T","E","R","_","R","O","W",":",":">> \o str(j - 1)
                 IN  /\ build_master_key(master_rows[j], j - 1) = k
                     /\ \A i \in 1..Len(master_rows) :
                           i # j => build_master_key(master_rows[i], i - 1) # k
                     /\ k \notin LedgerKeySet
                     /\ Len(RecordsOf(k)) = 1
                     /\ Get(RecordsOf(k)[1], <<"J","o","i","n","_","S","t","a","t","u","s">>) = <<"M","a","s","t","e","r","_","O","n","l","y">>
                     /\ Get(RecordsOf(k)[1], <<"M","a","s","t","e","r","_","R","o","w","_","C","o","u","n","t">>) = 1
        /\ \A j \in 1..Len(ledger_rows) :
              LET k == build_ledger_key(ledger_rows[j], j - 1)
              IN  startswith(k, <<"L","E","D","G","E","R","_","R","O","W",":",":">>) =>
                     /\ k = <<"L","E","D","G","E","R","_","R","O","W",":",":">> \o str(j - 1)
                     /\ \A i \in 1..Len(ledger_rows) :
                           i # j => build_ledger_key(ledger_rows[i], i - 1) # k
                     /\ k \notin MasterKeySet
                     /\ Len(RecordsOf(k)) = 1
                     /\ Get(RecordsOf(k)[1], <<"J","o","i","n","_","S","t","a","t","u","s">>) = <<"L","e","d","g","e","r","_","O","n","l","y">>
                     /\ Get(RecordsOf(k)[1], <<"L","e","d","g","e","r","_","R","o","w","_","C","o","u","n","t">>) = 1

\* a returned join of two master rows without Date or Contact and a ledger row
\* keyed by its ordinal
C5_Witness ==
    /\ Returned
    /\ Len(master_rows) = 2
    /\ \A j \in 1..2 : Lacks(master_rows[j], <<"D","a","t","e">>) \/ Lacks(master_rows[j], <<"C","o","n","t","a","c","t">>)
    /\ \E j \in 1..Len(ledger_rows) :
          startswith(build_ledger_key(ledger_rows[j], j - 1), <<"L","E","D","G","E","R","_","R","O","W",":",":">>)

\* the number of cents an amount string denotes once its thousands separators
\* are dropped, as a string of digits; None when it denotes no finite number
DenotedCents(amount) ==
    LET a == amount_key(StripCommas(norm(amount)))
    IN  IF a = <<>> \/ a = Raised THEN None ELSE a

\* C3: a ledger row and a master row with equal Date, equal Contact and amounts
\* denoting the same number of cents, one perhaps written with thousands
\* separators, derive the same date+contact+amount key and are joined into one
\* record with Join_Status "Both".
C3_SeparatorsStillMatch ==
    (/\ pc = "joined"
     /\ Len(ledger_rows) = 1
     /\ Len(master_rows) = 1
     /\ ~Lacks(ledger_rows[1], <<"D","a","t","e">>)
     /\ ~Lacks(ledger_rows[1], <<"C","o","n","t","a","c","t">>)
     /\ norm(Get(ledger_rows[1], <<"D","a","t","e">>)) = norm(Get(master_rows[1], <<"D","a","t","e">>))
     /\ norm(Get(ledger_rows[1], <<"C","o","n","t","a","c","t">>)) = norm(Get(master_rows[1], <<"C","o","n","t","a","c","t">>))
     /\ DenotedCents(LedgerAmountOffered(ledger_rows[1])) # None
     /\ DenotedCents(LedgerAmountOffered(ledger_rows[1]))
          = DenotedCents(MasterAmountOffered(master_rows[1])))
    => /\ result.status = "returned"
       /\ TierOf(build_ledger_key(ledger_rows[1], 0)) = 1
       /\ build_ledger_key(ledger_rows[1], 0) = build_master_key(master_rows[1], 0)
       /\ Len(result.out_rows) = 1
       /\ Get(result.out_rows[1], <<"J","o","i","n","_","S","t","a","t","u","s">>) = <<"B","o","t","h">>

\* C4: a second run on the same year and the same rows writes the same table
\* (header and sequence of data rows) and the same summary counts as the first.
C4_RerunIdentical ==
    pc = "rejoined" =>
        /\ result.csv_text = prev_result.csv_text
        /\ result.summary = prev_result.summary

\* the ledger group and the master group of a key (empty when it has none)
LedgerGroup(k) ==
    IF k \in LedgerKeySet THEN Groups(ledger_rows, LedgerKeys(ledger_rows))[k] ELSE <<>>

MasterGroup(k) ==
    IF k \in MasterKeySet THEN Groups(master_rows, MasterKeys(master_rows))[k] ELSE <<>>

HasColumnWith(r, prefix) == \E c \in Columns(r) : startswith(c, prefix)

\* C10, first part: a record is marked Both, Ledger_Only or Master_Only
\* according to which groups its Invoice_Key has.
C10_StatusMatchesGroups ==
    Returned =>
        \A r \in ToSet(result.out_rows) :
            LET k == Get(r, <<"I","n","v","o","i","c","e","_","K","e","y">>)
                st == Get(r, <<"J","o","i","n","_","S","t","a","t","u","s">>)
            IN  /\ st \in {<<"B","o","t","h">>, <<"L","e","d","g","e","r","_","O","n","l","y">>, <<"M","a","s","t","e","r","_","O","n","l","y">>}
                /\ st = <<"B","o","t","h">> <=> (k \in LedgerKeySet /\ k \in MasterKeySet)
                /\ st = <<"L","e","d","g","e","r","_","O","n","l","y">> <=> (k \in LedgerKeySet /\ k \notin MasterKeySet)
                /\ st = <<"M","a","s","t","e","r","_","O","n","l","y">> <=> (k \notin LedgerKeySet /\ k \in MasterKeySet)

\* C10, second part: a record carries Ledger_ columns exactly when its key has
\* a ledger group, and Master_ columns exactly when it was expanded from a
\* master row; MasterRow_ columns appear only on records of master rows.
C10_ColumnsMatchGroups ==
    Returned =>
        \A r \in ToSet(result.out_rows) :
            LET k == Get(r, <<"I","n","v","o","i","c","e","_","K","e","y">>)
            IN  /\ HasColumnWith(r, <<"L","e","d","g","e","r","_">>) <=> k \in LedgerKeySet
                /\ HasColumnWith(r, <<"M","a","s","t","e","r","_">>) <=> k \in MasterKeySet
                /\ HasColumnWith(r, <<"M","a","s","t","e","r","R","o","w","_">>) => k \in MasterKeySet

\* C10, third part: nothing copied into a record is overwritten: Year, the key
\* and every Ledger_ column keep the values first stored, and every field of
\* every master row is found, under its MasterRow_ name, in a record of its key.
C10_NothingOverwritten ==
    Returned =>
        /\ \A r \in ToSet(result.out_rows) :
              LET ls == summarise_ledger_group(LedgerGroup(Get(r, <<"I","n","v","o","i","c","e","_","K","e","y">>)))
              IN  /\ Get(r, <<"Y","e","a","r">>) = norm(Get(actor_input, <<"Y","e","a","r">>))
                  /\ Get(r, <<"I","n","v","o","i","c","e","_","K","e","y">>) \in LedgerKeySet \cup MasterKeySet
                  /\ \A c \in Columns(ls) : Get(r, c) = Get(ls, c)
        /\ \A j \in 1..Len(master_rows) :
              \E r \in ToSet(RecordsOf(build_master_key(master_rows[j], j - 1))) :
                  \A i \in 1..Len(master_rows[j]) :
                      Get(r, MasterRowColumn(master_rows[j][i][1])) = master_rows[j][i][2]

\* C10: when build_output_rows returns, every record is marked Both,
\* Ledger_Only or Master_Only according to the groups its key has, carries
\* Ledger_ and Master_/MasterRow_ columns accordingly, and no value copied into
\* it (Year, Invoice_Key, Join_Status, a Ledger_ column, a MasterRow_ column)
\* has been overwritten by a later copy.
C10_JoinStatusConsistency ==
    C10_StatusMatchesGroups /\ C10_ColumnsMatchGroups /\ C10_NothingOverwritten

-----------------------------------------------------------------------------
(* main: one run of the actor. *)

\* the values the run input may give each of its three fields (None: absent)
MainYears == {None, <<" ">>, <<" ","2","0","1","6">>}

MainLedgerUrls == {None, <<>>, <<"L">>}

MainMasterUrls == {None, <<"M">>}

MainInputs ==
    { MakeRow(<< <<<<"Y","e","a","r">>, y>>, <<<<"L","e","d","g","e","r","U","r","l">>, l>>, <<<<"M","a","s","t","e","r","U","r","l">>, m>> >>) :
        y \in MainYears, l \in MainLedgerUrls, m \in MainMasterUrls }

\* the rows a fetched ledger CSV and a fetched master CSV may hold
MainLedgerRows ==
    { << <<<<"D","a","t","e">>, <<"2","0","1","6","-","0","1","-","0","1">>>>, <<<<"C","o","n","t","a","c","t">>, <<"A","c","m","e">>>>,
         <<<<"G","r","o","s","s"," ","(","A","U","D",")">>, <<"1","0","0","0",".","0","0">>>> >>,
      << <<<<"D","a","t","e">>, <<>>>>, <<<<"C","o","n","t","a","c","t">>, <<"A","c","m","e">>>>, <<<<"N","e","t"," ","(","A","U","D",")">>, <<"5">>>> >>,
      << <<<<"D","a","t","e">>, <<"2","0","1","6","-","0","1","-","0","1">>>>, <<<<"C","o","n","t","a","c","t">>, <<"A","c","m","e">>>>,
         <<<<"G","r","o","s","s"," ","(","A","U","D",")">>, <<"N","a","N">>>> >> }

MainMasterRows ==
    { << <<<<"D","a","t","e">>, <<"2","0","1","6","-","0","1","-","0","1">>>>, <<<<"C","o","n","t","a","c","t">>, <<"A","c","m","e">>>>,
         <<<<"A","m","o","u","n","t"," ","a","u","d">>, <<"1","0","0","0",".","0","0">>>> >>,
      << <<<<"C","o","n","t","a","c","t">>, <<"A","c","m","e">>>>, <<<<"L","i","n","e"," ","a","m","o","u","n","t">>, <<"1","2",".","5","0">>>> >>,
      << <<<<"D","a","t","e">>, <<"2","0","1","6","-","0","1","-","0","1">>>>, <<<<"C","o","n","t","a","c","t">>, <<"A","c","m","e">>>>,
         <<<<"A","m","o","u","n","t"," ","a","u","d">>, <<"N","a","N">>>> >> }

Init ==
    /\ pc = "get_input"
    /\ actor_input \in MainInputs
    /\ ledger_rows = <<>>
    /\ master_rows = <<>>
    /\ idx = 0
    /\ lkey = None
    /\ mkey = None
    /\ fetches = [ledger |-> <<>>, master |-> <<>>]
    /\ merges = 0
    /\ result = NoResult
    /\ prev_result = NoResult
    /\ dataset = <<>>
    /\ kv_store = {}

year == norm(Get(actor_input, <<"Y","e","a","r">>))

ledger_url == norm(Get(actor_input, <<"L","e","d","g","e","r","U","r","l">>))

master_url == norm(Get(actor_input, <<"M","a","s","t","e","r","U","r","l">>))

filename == IF Truthy(year) THEN <<"i","n","v","o","i","c","e","_","m","a","s","t","e","r","_">> \o year \o <<".","c","s","v">>
            ELSE <<"i","n","v","o","i","c","e","_","m","a","s","t","e","r",".","c","s","v">>

\* Actor.push_data(item), then return
PushAndReturn(item) ==
    /\ dataset' = Append(dataset, item)
    /\ pc' = "done"

\* a required input field is missing or blank
MissingInput ==
    /\ pc = "get_input"
    /\ ~Truthy(year) \/ ~Truthy(ledger_url) \/ ~Truthy(master_url)
    /\ PushAndReturn([ok |-> FALSE,
                      error |-> <<"M","i","s","s","i","n","g"," ","r","e","q","u","i","r","e","d"," ","i","n","p","u","t"," ","f","i","e","l","d","s","."," ","E","x","p","e","c","t","e","d"," ","Y","e","a","r",","," ","L","e","d","g","e","r","U","r","l",","," ","M","a","s","t","e","r","U","r","l",".">>,
                      actor_input |-> actor_input])
    /\ UNCHANGED <<actor_input, ledger_rows, master_rows, fetches, merges, result,
                   prev_result, kv_store, idx, lkey, mkey>>

\* the three input fields are present
InputOk ==
    /\ pc = "get_input"
    /\ Truthy(year) /\ Truthy(ledger_url) /\ Truthy(master_url)
    /\ pc' = "fetch_ledger"
    /\ UNCHANGED <<actor_input, ledger_rows, master_rows, fetches, merges, result,
                   prev_result, dataset, kv_store, idx, lkey, mkey>>

\* fetch_csv_rows(ledger_url, "ledger") returns the parsed rows
FetchLedgerOk ==
    /\ pc = "fetch_ledger"
    /\ fetches' = [fetches EXCEPT !.ledger = Append(@, "ok")]
    /\ ledger_rows' \in SeqsUpTo(MainLedgerRows, MaxLedgerRows)
    /\ pc' = "fetch_master"
    /\ UNCHANGED <<actor_input, master_rows, merges, result, prev_result, dataset,
                   kv_store, idx, lkey, mkey>>

\* the same call raises, and the handler fails to return
FetchLedgerFails_no_return ==
    /\ pc = "fetch_ledger"
    /\ fetches' = [fetches EXCEPT !.ledger = Append(@, "failed")]
    /\ dataset' = Append(dataset,
                         [ok |-> FALSE,
                          error |-> <<"F","a","i","l","e","d"," ","t","o"," ","d","o","w","n","l","o","a","d"," ","o","r"," ","p","a","r","s","e"," ","l","e","d","g","e","r"," ","C","S","V",":"," ">>,
                          which |-> <<"l","e","d","g","e","r">>,
                          ledger_url |-> ledger_url])
    /\ pc' = "fetch_master"
    /\ UNCHANGED <<actor_input, ledger_rows, master_rows, merges, result, prev_result,
                   kv_store, idx, lkey, mkey>>

\* fetch_csv_rows(ledger_url, "ledger") raises
FetchLedgerFails ==
    /\ pc = "fetch_ledger"
    /\ fetches' = [fetches EXCEPT !.ledger = Append(@, "failed")]
    /\ PushAndReturn([ok |-> FALSE,
                      error |-> <<"F","a","i","l","e","d"," ","t","o"," ","d","o","w","n","l","o","a","d"," ","o","r"," ","p","a","r","s","e"," ","l","e","d","g","e","r"," ","C","S","V",":"," ">>,
                      which |-> <<"l","e","d","g","e","r">>,
                      ledger_url |-> ledger_url])
    /\ UNCHANGED <<actor_input, ledger_rows, master_rows, merges, result, prev_result,
                   kv_store, idx, lkey, mkey>>

\* fetch_csv_rows(master_url, "master") returns the parsed rows
FetchMasterOk ==
    /\ pc = "fetch_master"
    /\ fetches' = [fetches EXCEPT !.master = Append(@, "ok")]
    /\ master_rows' \in SeqsUpTo(MainMasterRows, MaxMasterRows)
    /\ pc' = "check_empty"
    /\ UNCHANGED <<actor_input, ledger_rows, merges, result, prev_result, dataset,
                   kv_store, idx, lkey, mkey>>

\* fetch_csv_rows(master_url, "master") raises
FetchMasterFails ==
    /\ pc = "fetch_master"
    /\ fetches' = [fetches EXCEPT !.master = Append(@, "failed")]
    /\ PushAndReturn([ok |-> FALSE,
                      error |-> <<"F","a","i","l","e","d"," ","t","o"," ","d","o","w","n","l","o","a","d"," ","o","r"," ","p","a","r","s","e"," ","m","a","s","t","e","r"," ","C","S","V",":"," ">>,
                      which |-> <<"m","a","s","t","e","r">>,
                      master_url |-> master_url])
    /\ UNCHANGED <<actor_input, ledger_rows, master_rows, merges, result, prev_result,
                   kv_store, idx, lkey, mkey>>

\* the condition of the empty-input abort, and one that aborts on either source
EmptyInput_either(lrows, mrows) == lrows = <<>> \/ mrows = <<>>

EmptyInput(lrows, mrows) == lrows = <<>> /\ mrows = <<>>

\* both CSVs are empty
EmptyAbort ==
    /\ pc = "check_empty"
    /\ EmptyInput(ledger_rows, master_rows)
    /\ PushAndReturn([ok |-> FALSE,
                      error |-> <<"B","o","t","h"," ","l","e","d","g","e","r"," ","a","n","d"," ","m","a","s","t","e","r"," ","C","S","V","s"," ","a","r","e"," ","e","m","p","t","y",".">>,
                      year |-> year])
    /\ UNCHANGED <<actor_input, ledger_rows, master_rows, fetches, merges, result,
                   prev_result, kv_store, idx, lkey, mkey>>

\* build_output_rows returns and rows_to_csv serializes its rows
MergeReturns ==
    /\ pc = "check_empty"
    /\ ~EmptyInput(ledger_rows, master_rows)
    /\ ~GroupingRaises(ledger_rows, master_rows)
    /\ \E order \in Orders(AllKeys(ledger_rows, master_rows)) :
          result' = Merged(year, ledger_rows, master_rows, order)
    /\ merges' = merges + 1
    /\ pc' = "set_value"
    /\ UNCHANGED <<actor_input, ledger_rows, master_rows, fetches, prev_result,
                   dataset, kv_store, idx, lkey, mkey>>

\* build_output_rows raises; nothing in main catches it, the run ends there
MergeRaises ==
    /\ pc = "check_empty"
    /\ ~EmptyInput(ledger_rows, master_rows)
    /\ GroupingRaises(ledger_rows, master_rows)
    /\ result' = [status |-> "raised"]
    /\ merges' = merges + 1
    /\ pc' = "raised"
    /\ UNCHANGED <<actor_input, ledger_rows, master_rows, fetches, prev_result,
                   dataset, kv_store, idx, lkey, mkey>>

\* Actor.set_value(filename, csv_text)
SetValue ==
    /\ pc = "set_value"
    /\ kv_store' = kv_store \cup {[key |-> filename, value |-> result.csv_text]}
    /\ pc' = "push_summary"
    /\ UNCHANGED <<actor_input, ledger_rows, master_rows, fetches, merges, result,
                   prev_result, dataset, idx, lkey, mkey>>

\* Actor.push_data of the summary item
PushSummary ==
    /\ pc = "push_summary"
    /\ PushAndReturn(result.summary @@ [ok |-> TRUE, year |-> year, csv_key |-> filename])
    /\ UNCHANGED <<actor_input, ledger_rows, master_rows, fetches, merges, result,
                   prev_result, kv_store, idx, lkey, mkey>>

Next ==
    \/ MissingInput
    \/ InputOk
    \/ FetchLedgerOk
    \/ FetchLedgerFails
    \/ FetchMasterOk
    \/ FetchMasterFails
    \/ EmptyAbort
    \/ MergeReturns
    \/ MergeRaises
    \/ SetValue
    \/ PushSummary

Spec == Init /\ [][Next]_vars

-----------------------------------------------------------------------------
(* Claims about main (Spec). *)

\* the run is over: main returned, or an exception left it
RunEnded == pc \in {"done", "raised"}

\* both fetch_csv_rows calls returned
BothFetched == fetches.ledger = <<"ok">> /\ fetches.master = <<"ok">>

\* the run is past the test of the empty-input abort
PastEmptyCheck == BothFetched /\ pc # "check_empty"

\* the run ended with the record of the empty-input abort and nothing else
EmptyAbortRecord ==
    /\ pc = "done"
    /\ Len(dataset) = 1
    /\ ~dataset[1].ok
    /\ dataset[1].error = <<"B","o","t","h"," ","l","e","d","g","e","r"," ","a","n","d"," ","m","a","s","t","e","r"," ","C","S","V","s"," ","a","r","e"," ","e","m","p","t","y",".">>
    /\ "which" \notin DOMAIN dataset[1]

\* the string main writes in the "which" field for a source
WhichOf(source) == IF source = "ledger" THEN <<"l","e","d","g","e","r">> ELSE <<"m","a","s","t","e","r">>

\* C6: every run that has ended pushed exactly one record; the artifact is
\* written if and only if that record has ok = True; a record with ok = False
\* carries an error message and comes with no merge.
C6_AllOrNothing ==
    RunEnded =>
        /\ Len(dataset) = 1
        /\ (kv_store # {}) <=> dataset[1].ok
        /\ ~dataset[1].ok => "error" \in DOMAIN dataset[1] /\ merges = 0

\* the same for the runs in which main returns
C6_AllOrNothingOnReturn ==
    pc = "done" =>
        /\ Len(dataset) = 1
        /\ (kv_store # {}) <=> dataset[1].ok
        /\ ~dataset[1].ok => "error" \in DOMAIN dataset[1] /\ merges = 0

\* C7, as stated: once both fetches have succeeded, a source with zero rows
\* aborts the run with the empty-input record, no merge and no artifact; merge
\* and artifact need a row in both sources.
C7_AbortOnAnyEmptySource ==
    PastEmptyCheck =>
        /\ (ledger_rows = <<>> \/ master_rows = <<>>) =>
               EmptyAbortRecord /\ merges = 0 /\ kv_store = {}
        /\ (merges > 0 \/ kv_store # {}) => ledger_rows # <<>> /\ master_rows # <<>>

\* C7, amended: once both fetches have succeeded, the run is aborted with the
\* empty-input record (no merge, no artifact) exactly when both sources have
\* zero rows; with a row in at least one source the merge is run, once, and
\* the artifact is only written after the merge has returned.
C7_AbortOnlyWhenBothEmpty ==
    PastEmptyCheck =>
        /\ (ledger_rows = <<>> /\ master_rows = <<>>) =>
               EmptyAbortRecord /\ merges = 0 /\ kv_store = {}
        /\ (ledger_rows # <<>> \/ master_rows # <<>>) =>
               ~EmptyAbortRecord /\ merges = 1
        /\ kv_store # {} => merges = 1 /\ result.status = "returned"

\* both sources fetched with zero rows, and the run aborted on it
C7_Witness ==
    /\ BothFetched
    /\ ledger_rows = <<>> /\ master_rows = <<>>
    /\ EmptyAbortRecord

\* C8: each source is fetched at most once; the master is fetched only after
\* the ledger fetch succeeded; the merge starts only after both fetches
\* succeeded; a failed fetch ends the run with one error record whose "which"
\* names the failed source, and only a failed fetch produces such a record.
C8_FetchOrdering ==
    /\ Len(fetches.ledger) <= 1 /\ Len(fetches.master) <= 1
    /\ fetches.master # <<>> => fetches.ledger = <<"ok">>
    /\ merges > 0 => BothFetched
    /\ \A source \in {"ledger", "master"} :
          /\ fetches[source] = <<"failed">> =>
                /\ pc = "done"
                /\ Len(dataset) = 1
                /\ ~dataset[1].ok
                /\ "which" \in DOMAIN dataset[1]
                /\ dataset[1].which = WhichOf(source)
                /\ merges = 0
                /\ kv_store = {}
          /\ (\E i \in 1..Len(dataset) :
                  "which" \in DOMAIN dataset[i] /\ dataset[i].which = WhichOf(source))
                => fetches[source] = <<"failed">>

\* the ledger was fetched, the master fetch failed, and the run ended on it
C8_Witness ==
    /\ fetches.ledger = <<"ok">>
    /\ fetches.master = <<"failed">>
    /\ ledger_rows # <<>>
    /\ pc = "done"

=============================================================================
